---- MODULE Spec2Model ----
(***************************************************************************)
(* Water-pump dashboard (app.py): the maneuver controller PumpController,  *)
(* the relay driver RelayController, the level feed MQTTClient and the     *)
(* CSV history HistoryLogger, as one state machine.                        *)
(*                                                                         *)
(* Time is the reading of datetime.now() in seconds since midnight of the  *)
(* first day.  Levels are percentages; an MQTT value is a fraction, held   *)
(* here in hundredths (0.15 is 15).  One action is one handler run to its  *)
(* return, with every nested call it makes.                                *)
(***************************************************************************)
EXTENDS Integers, Sequences, FiniteSets, TLC

VARIABLES
    now,             \* datetime.now()
    deployment,      \* "pi": RPi.GPIO drives the pins; "sim": no GPIO
    gpio_initialized,\* RelayController.gpio_initialized
    relays,          \* keys of RelayController.relays (configured relays)
    relay_active_high, \* the relayN_active_high options of the configuration
    tank,            \* st.session_state.tank_low_level / tank_high_level
    last_update,     \* st.session_state.last_update
    pump_state,      \* st.session_state.pump_state
    relay_states,    \* st.session_state.relay_states (logical)
    gpio,            \* physical level last driven on each relay pin
    history,         \* rows of historic.csv, oldest first
    op,              \* the handler that ran last
    ret,             \* what it returned
    cmds             \* the set_relay_state(relay, active) calls it made, in order

vars == <<now, deployment, gpio_initialized, relays, relay_active_high, tank, last_update,
          pump_state, relay_states, gpio, history, op, ret, cmds>>

----------------------------------------------------------------------------
(* Bounds of the exploration *)

\* rows the history may hold: the start handlers are called while it holds
\* fewer, and no step closes a maneuver beyond it
MaxHist == 1

\* rows the history file holds when HistoryLogger is exercised on its own
MaxRows == 3

\* rows the history may hold when the handlers append to a history that
\* already has rows
AppendRows == 2

\* days the clock has moved on when the history file is written, read or pruned
HistoryDays == {0, 20, 40, 1825, 1830}

\* the periods of the history tab that are read
Periods == {30, 1825}

Hms(h, m, s) == (h * 60 + m) * 60 + s

\* the clock readings the handlers are run at
Instants == { Hms(11,59,0), Hms(12,0,0), Hms(12,10,0) }

\* the readings at which the application may be constructed
InitInstants == { Hms(11,59,0) }

LastInstant == Hms(12,10,0)

\* stale_window_s of the specification: readings older than this are stale
StaleWindow == 5 * 60

\* MQTT "value" fields (hundredths) seen on each topic
LowValues  == {15, 20}
HighValues == {0, 99}

----------------------------------------------------------------------------
(* Configuration: ConfigManager.get_default_config *)

durada_max_maniobra == 3
durada_max_manual   == 10
temps_manteniment   == 10
periode_manteniment == 10
retencio_historic_anys == 5
hora_maniobra       == Hms(12, 0, 0)

Relays == {3, 4}

\* the defaults of relay3_active_high and relay4_active_high
relay3_active_high == FALSE
relay4_active_high == FALSE

----------------------------------------------------------------------------
(* Python values *)

None == -1                      \* a datetime that is None
NoLevels == [low |-> -1, high |-> -1]   \* pump_state has no 'start_levels' key
NoOperation == [end_time |-> None, duration |-> 0, reason |-> "", mode |-> ""]

DaySeconds == 24 * 3600         \* timedelta(days=1)

\* value * 100, for a value held in hundredths
Times100(v) == (v * 100) \div 100

----------------------------------------------------------------------------
(* RelayController *)

\* The state a handler works on: it is threaded through the nested calls.
Cur == [pump |-> pump_state, relay_states |-> relay_states, gpio |-> gpio,
        history |-> history, cmds |-> <<>>]

\* GPIO.output(pin, GPIO.HIGH if gpio_value else GPIO.LOW); off a Raspberry Pi
\* no output is driven
gpio_output(pins, relay_num, gpio_value) ==
    IF deployment = "pi"
    THEN [pins EXCEPT ![relay_num] = IF gpio_value THEN "HIGH" ELSE "LOW"]
    ELSE pins

\* set_relay_state that drives the pin with the logical value, whatever the polarity
set_relay_state_ignores_polarity(s, relay_num, active, bad) ==
    LET called == [s EXCEPT !.cmds = Append(@, <<relay_num, active>>)]
        gpio_value == active
    IN  IF ~gpio_initialized THEN called
        ELSE IF relay_num \notin relays THEN called
        ELSE IF deployment = "pi" /\ relay_num \in bad THEN called
        ELSE [called EXCEPT !.gpio = gpio_output(@, relay_num, gpio_value),
                            !.relay_states[relay_num] = active]

\* bad: the relays whose GPIO.output raises during this handler
set_relay_state(s, relay_num, active, bad) ==
    LET called == [s EXCEPT !.cmds = Append(@, <<relay_num, active>>)]
        gpio_value == IF relay_active_high[relay_num] THEN active ELSE ~active
    IN  IF ~gpio_initialized THEN called
        ELSE IF relay_num \notin relays THEN called
        ELSE IF deployment = "pi" /\ relay_num \in bad THEN called
        ELSE [called EXCEPT !.gpio = gpio_output(@, relay_num, gpio_value),
                            !.relay_states[relay_num] = active]

get_relay_state(relay_num) == relay_states[relay_num]

\* cleanup: GPIO.cleanup() returns every channel to an input; it makes no
\* set_relay_state call and leaves the logical states
cleanup(s) ==
    IF gpio_initialized /\ deployment = "pi"
    THEN [s EXCEPT !.gpio = [r \in Relays |-> "input"]]
    ELSE s

----------------------------------------------------------------------------
(* MQTTClient *)

get_tank_levels == [low |-> tank.low, high |-> tank.high]

\* _on_message with the two topics exchanged
on_message_topics_swapped(levels, topic, v) ==
    IF topic = 4 THEN [levels EXCEPT !.low = Times100(v)]
    ELSE IF topic = 3 THEN [levels EXCEPT !.high = Times100(v)]
    ELSE levels

\* _on_message for a payload {"value": v}; topic is the tank number
on_message(levels, topic, v) ==
    IF topic = 3 THEN [levels EXCEPT !.low = Times100(v)]
    ELSE IF topic = 4 THEN [levels EXCEPT !.high = Times100(v)]
    ELSE levels

\* _on_message for any payload; m is what it may write: the stored levels and
\* last_update.  json.loads raises on text that is not JSON and data.get raises
\* on a JSON number: both are caught and nothing is written.  An object without
\* "value" reads as value 0.
_on_message(m, topic, payload) ==
    IF payload.kind = "invalid_json" THEN m
    ELSE IF payload.kind = "number" THEN m
    ELSE LET value == IF payload.kind = "object" THEN payload.value ELSE 0
         IN  [levels |-> on_message(m.levels, topic, value), last_update |-> now]

----------------------------------------------------------------------------
(* HistoryLogger *)

\* strftime('%Y-%m-%d') and strftime('%H:%M:%S'): the day and the second of the day
DateOf(t) == t \div DaySeconds
TimeOf(t) == t % DaySeconds

\* log_operation with the row's start taken from end_time
log_operation_end_as_start(s, start_time, end_time, start_levels, end_levels, operation_type, stop_reason) ==
    LET duration == end_time - start_time
        record == [data_inici        |-> DateOf(end_time),
                   hora_inici        |-> TimeOf(end_time),
                   data_final        |-> DateOf(end_time),
                   hora_final        |-> TimeOf(end_time),
                   durada_segons     |-> duration,
                   nivell_baix_inici |-> start_levels.low,
                   nivell_alt_inici  |-> start_levels.high,
                   nivell_baix_final |-> end_levels.low,
                   nivell_alt_final  |-> end_levels.high,
                   tipus_maniobra    |-> operation_type,
                   motiu_aturada     |-> stop_reason]
    IN  [s EXCEPT !.history = Append(@, record)]

\* log_operation that writes the new row at the head of the file
log_operation_prepends(s, start_time, end_time, start_levels, end_levels, operation_type, stop_reason) ==
    LET duration == end_time - start_time
        record == [data_inici        |-> DateOf(start_time),
                   hora_inici        |-> TimeOf(start_time),
                   data_final        |-> DateOf(end_time),
                   hora_final        |-> TimeOf(end_time),
                   durada_segons     |-> duration,
                   nivell_baix_inici |-> start_levels.low,
                   nivell_alt_inici  |-> start_levels.high,
                   nivell_baix_final |-> end_levels.low,
                   nivell_alt_final  |-> end_levels.high,
                   tipus_maniobra    |-> operation_type,
                   motiu_aturada     |-> stop_reason]
    IN  [s EXCEPT !.history = <<record>> \o @]

\* log_operation that subtracts the end from the start
log_operation_duration_reversed(s, start_time, end_time, start_levels, end_levels, operation_type, stop_reason) ==
    LET duration == start_time - end_time
        record == [data_inici        |-> DateOf(start_time),
                   hora_inici        |-> TimeOf(start_time),
                   data_final        |-> DateOf(end_time),
                   hora_final        |-> TimeOf(end_time),
                   durada_segons     |-> duration,
                   nivell_baix_inici |-> start_levels.low,
                   nivell_alt_inici  |-> start_levels.high,
                   nivell_baix_final |-> end_levels.low,
                   nivell_alt_final  |-> end_levels.high,
                   tipus_maniobra    |-> operation_type,
                   motiu_aturada     |-> stop_reason]
    IN  [s EXCEPT !.history = Append(@, record)]

log_operation(s, start_time, end_time, start_levels, end_levels, operation_type, stop_reason) ==
    LET duration == end_time - start_time
        record == [data_inici        |-> DateOf(start_time),
                   hora_inici        |-> TimeOf(start_time),
                   data_final        |-> DateOf(end_time),
                   hora_final        |-> TimeOf(end_time),
                   durada_segons     |-> duration,
                   nivell_baix_inici |-> start_levels.low,
                   nivell_alt_inici  |-> start_levels.high,
                   nivell_baix_final |-> end_levels.low,
                   nivell_alt_final  |-> end_levels.high,
                   tipus_maniobra    |-> operation_type,
                   motiu_aturada     |-> stop_reason]
    IN  [s EXCEPT !.history = Append(@, record)]

\* pd.to_datetime(data_inici + ' ' + hora_inici)
RowStart(row) == row.data_inici * DaySeconds + row.hora_inici
RowEnd(row)   == row.data_final * DaySeconds + row.hora_final

\* df[df['datetime'] >= cutoff_date]
Since(rows, cutoff_date) ==
    SelectSeq(rows, LAMBDA row : RowStart(row) >= cutoff_date)

\* the orders sort_values('datetime', ascending=False) may leave df in: rows
\* with equal datetime come in either order
SortedDescending(df) ==
    LET n == Len(df)
        perms == {f \in [1..n -> 1..n] : \A i, j \in 1..n : i # j => f[i] # f[j]}
    IN  {[i \in 1..n |-> df[f[i]]] : f \in
           {g \in perms : \A i, j \in 1..n :
                              i < j => RowStart(df[g[i]]) >= RowStart(df[g[j]])}}

\* get_recent_history(days): the DataFrames it may return
get_recent_history(rows, days) ==
    IF rows = <<>> THEN {<<>>}
    ELSE SortedDescending(Since(rows, now - days * DaySeconds))

\* cleanup_old_records that also drops the rows that start at the cutoff
cleanup_old_records_strict(rows) ==
    LET cutoff_date == now - (retencio_historic_anys * 365) * DaySeconds
        df_filtered == SelectSeq(rows, LAMBDA row : RowStart(row) > cutoff_date)
    IN  IF rows = <<>> THEN rows
        ELSE IF Len(df_filtered) < Len(rows) THEN df_filtered
        ELSE rows

\* cleanup_old_records: the rows of historic.csv afterwards
cleanup_old_records(rows) ==
    LET cutoff_date == now - (retencio_historic_anys * 365) * DaySeconds
        df_filtered == Since(rows, cutoff_date)
    IN  IF rows = <<>> THEN rows
        ELSE IF Len(df_filtered) < Len(rows) THEN df_filtered
        ELSE rows

----------------------------------------------------------------------------
(* PumpController *)

\* stop_operation that forgets to clear start_time
stop_operation_keeps_start_time(s, reason, levels, bad) ==
    IF s.pump.running
    THEN LET s1 == set_relay_state(s, 3, FALSE, bad)
             s2 == set_relay_state(s1, 4, FALSE, bad)
             s3 == log_operation(s2, s.pump.start_time, now, s.pump.start_levels,
                                 levels, s.pump.mode, reason)
         IN  [s3 EXCEPT !.pump.running = FALSE,
                        !.pump.mode = "stopped",
                        !.pump.duration_limit = 0,
                        !.pump.last_operation =
                            [end_time |-> now, duration |-> now - s.pump.start_time,
                             reason |-> reason, mode |-> s.pump.mode]]
    ELSE s

\* stop_operation in which a failing output raises out of set_relay_state
\* and ends the handler
stop_operation_aborts_on_fault(s, reason, levels, bad) ==
    IF s.pump.running
    THEN LET s1 == set_relay_state(s, 3, FALSE, bad)
             s2 == set_relay_state(s1, 4, FALSE, bad)
             s3 == log_operation(s2, s.pump.start_time, now, s.pump.start_levels,
                                 levels, s.pump.mode, reason)
         IN  IF deployment = "pi" /\ 3 \in bad THEN s1
             ELSE IF deployment = "pi" /\ 4 \in bad THEN s2
             ELSE [s3 EXCEPT !.pump.running = FALSE,
                             !.pump.mode = "stopped",
                             !.pump.start_time = None,
                             !.pump.duration_limit = 0,
                             !.pump.last_operation =
                                 [end_time |-> now, duration |-> now - s.pump.start_time,
                                  reason |-> reason, mode |-> s.pump.mode]]
    ELSE s

\* levels: what get_tank_levels() returns when the handler reads it again
stop_operation(s, reason, levels, bad) ==
    IF s.pump.running
    THEN LET s1 == set_relay_state(s, 3, FALSE, bad)
             s2 == set_relay_state(s1, 4, FALSE, bad)
             start_time == s.pump.start_time
             start_levels == IF s.pump.start_levels = NoLevels
                             THEN [low |-> 0, high |-> 0]
                             ELSE s.pump.start_levels
             end_time == now
             end_levels == levels
             operation_mode == s.pump.mode
             duration == IF start_time # None THEN end_time - start_time ELSE 0
             s3 == IF start_time # None
                   THEN log_operation(s2, start_time, end_time, start_levels,
                                      end_levels, operation_mode, reason)
                   ELSE s2
         IN  [s3 EXCEPT !.pump.running = FALSE,
                        !.pump.mode = "stopped",
                        !.pump.start_time = None,
                        !.pump.duration_limit = 0,
                        !.pump.last_operation =
                            [end_time |-> end_time, duration |-> duration,
                             reason |-> reason, mode |-> operation_mode]]
    ELSE s

\* the value stop_operation returns: the Idle path falls off the end of the function
stop_operation_ret(s) == IF s.pump.running THEN "True" ELSE "None"

\* _check_auto_stop_conditions with the high level tested before the low level
_check_auto_stop_high_first(s, levels, bad) ==
    IF ~s.pump.running THEN s
    ELSE IF s.pump.start_time = None THEN s
    ELSE LET elapsed == now - s.pump.start_time
         IN  IF elapsed >= s.pump.duration_limit
                 THEN stop_operation(s, "temps_limit", levels, bad)
             ELSE IF levels.high >= 99
                 THEN stop_operation(s, "nivell_alt", levels, bad)
             ELSE IF levels.low <= 15
                 THEN stop_operation(s, "nivell_baix", levels, bad)
             ELSE s

\* _check_auto_stop_conditions with elapsed > duration_limit for >=
_check_auto_stop_strict(s, levels, bad) ==
    IF ~s.pump.running THEN s
    ELSE IF s.pump.start_time = None THEN s
    ELSE LET elapsed == now - s.pump.start_time
         IN  IF elapsed > s.pump.duration_limit
                 THEN stop_operation(s, "temps_limit", levels, bad)
             ELSE IF levels.low <= 15
                 THEN stop_operation(s, "nivell_baix", levels, bad)
             ELSE IF levels.high >= 99
                 THEN stop_operation(s, "nivell_alt", levels, bad)
             ELSE s

\* _check_auto_stop_conditions without the time limit
_check_auto_stop_levels_only(s, levels, bad) ==
    IF ~s.pump.running THEN s
    ELSE IF s.pump.start_time = None THEN s
    ELSE IF levels.low <= 15
        THEN stop_operation(s, "nivell_baix", levels, bad)
    ELSE IF levels.high >= 99
        THEN stop_operation(s, "nivell_alt", levels, bad)
    ELSE s

_check_auto_stop_conditions(s, levels, bad) ==
    IF ~s.pump.running THEN s
    ELSE IF s.pump.start_time = None THEN s
    ELSE LET elapsed == now - s.pump.start_time
         IN  IF elapsed >= s.pump.duration_limit
                 THEN stop_operation(s, "temps_limit", levels, bad)
             ELSE IF levels.low <= 15
                 THEN stop_operation(s, "nivell_baix", levels, bad)
             ELSE IF levels.high >= 99
                 THEN stop_operation(s, "nivell_alt", levels, bad)
             ELSE s

\* _update_relays with relay 4 gated by the low level as well
_update_relays_low_gates_both(s, levels, bad) ==
    IF ~s.pump.running THEN s
    ELSE LET relay3_should_be_active == levels.low > 15
             s1 == set_relay_state(s, 3, relay3_should_be_active, bad)
             relay4_should_be_active == levels.low > 15
             s2 == set_relay_state(s1, 4, relay4_should_be_active, bad)
         IN  _check_auto_stop_conditions(s2, levels, bad)

_update_relays(s, levels, bad) ==
    IF ~s.pump.running THEN s
    ELSE LET relay3_should_be_active == levels.low > 15
             s1 == set_relay_state(s, 3, relay3_should_be_active, bad)
             relay4_should_be_active == levels.high < 99
             s2 == set_relay_state(s1, 4, relay4_should_be_active, bad)
         IN  _check_auto_stop_conditions(s2, levels, bad)

_update_next_scheduled_time(s) ==
    LET scheduled_today == (now - (now % DaySeconds)) + hora_maniobra
        scheduled_next == IF scheduled_today <= now
                          THEN scheduled_today + DaySeconds
                          ELSE scheduled_today
    IN  [s EXCEPT !.pump.next_scheduled = scheduled_next]

_reschedule_operation(s) == _update_next_scheduled_time(s)

\* start_manual_operation without the test of the low level
start_manual_operation_no_low_test(s, levels, later, bad) ==
    IF levels.high >= 99 THEN s
    ELSE LET duration_minutes == durada_max_manual
             s1 == [s EXCEPT !.pump.running = TRUE,
                             !.pump.mode = "manual",
                             !.pump.start_time = now,
                             !.pump.duration_limit = duration_minutes * 60,
                             !.pump.start_levels = levels]
         IN  _update_relays(s1, later, bad)

\* levels: the reading taken on entry; later: the reading _update_relays takes
start_manual_operation(s, levels, later, bad) ==
    IF levels.low <= 15 THEN s
    ELSE IF levels.high >= 99 THEN s
    ELSE LET duration_minutes == durada_max_manual
             s1 == [s EXCEPT !.pump.running = TRUE,
                             !.pump.mode = "manual",
                             !.pump.start_time = now,
                             !.pump.duration_limit = duration_minutes * 60,
                             !.pump.start_levels = levels]
         IN  _update_relays(s1, later, bad)

start_manual_operation_ret(levels) ==
    IF levels.low <= 15 THEN "False"
    ELSE IF levels.high >= 99 THEN "False"
    ELSE "True"

start_auto_operation(s, levels, later, bad) ==
    IF levels.low <= 15 THEN _reschedule_operation(s)
    ELSE IF levels.high >= 99 THEN _reschedule_operation(s)
    ELSE LET duration_minutes == durada_max_maniobra
             s1 == [s EXCEPT !.pump.running = TRUE,
                             !.pump.mode = "auto",
                             !.pump.start_time = now,
                             !.pump.duration_limit = duration_minutes * 60,
                             !.pump.start_levels = levels]
             s2 == _update_relays(s1, later, bad)
         IN  _update_next_scheduled_time(s2)

start_auto_operation_ret(levels) ==
    IF levels.low <= 15 THEN "False"
    ELSE IF levels.high >= 99 THEN "False"
    ELSE "True"

\* start_maintenance_operation with the 15 % bound of the other starts
start_maintenance_operation_low_15(s, levels, bad) ==
    IF levels.low <= 15 THEN s
    ELSE LET duration_seconds == temps_manteniment
             s1 == [s EXCEPT !.pump.running = TRUE,
                             !.pump.mode = "maintenance",
                             !.pump.start_time = now,
                             !.pump.duration_limit = duration_seconds,
                             !.pump.start_levels = levels]
             s2 == set_relay_state(s1, 3, TRUE, bad)
         IN  set_relay_state(s2, 4, TRUE, bad)

start_maintenance_operation(s, levels, bad) ==
    IF levels.low <= 10 THEN s
    ELSE LET duration_seconds == temps_manteniment
             s1 == [s EXCEPT !.pump.running = TRUE,
                             !.pump.mode = "maintenance",
                             !.pump.start_time = now,
                             !.pump.duration_limit = duration_seconds,
                             !.pump.start_levels = levels]
             s2 == set_relay_state(s1, 3, TRUE, bad)
         IN  set_relay_state(s2, 4, TRUE, bad)

start_maintenance_operation_ret(levels) ==
    IF levels.low <= 10 THEN "False" ELSE "True"

Abs(x) == IF x < 0 THEN -x ELSE x

\* scheduled_due without the test of auto_enabled
scheduled_due_ignores_auto(pump) ==
    /\ pump.next_scheduled # None
    /\ Abs(now - pump.next_scheduled) <= 60

\* the test of _check_scheduled_operation that leads to start_auto_operation
scheduled_due(pump) ==
    /\ pump.auto_enabled
    /\ pump.next_scheduled # None
    /\ Abs(now - pump.next_scheduled) <= 60

_check_scheduled_operation(s, levels, later, bad) ==
    IF scheduled_due(s.pump)
    THEN start_auto_operation(s, levels, later, bad)
    ELSE s

update(s, levels, later, bad) ==
    IF s.pump.running
    THEN _update_relays(s, later, bad)
    ELSE _check_scheduled_operation(s, levels, later, bad)

----------------------------------------------------------------------------
(* Inputs of the handlers *)

\* a level message: <<tank number, value in hundredths>>
Messages == ({3} \X LowValues) \cup ({4} \X HighValues)

\* no message arrives on the MQTT thread while the handler runs
NoMsg == <<0, 0>>

\* the sets of relays whose output may fail during one handler
Bads == IF deployment = "pi" THEN {{}, {3}, {4}} ELSE {{}}

\* the levels after the MQTT thread has delivered mid (nothing for NoMsg)
Delivered(mid) == on_message(get_tank_levels, mid[1], mid[2])

\* a handler that reads the levels a second time may see a message in between
Mids(reads_again) == IF reads_again THEN Messages \cup {NoMsg} ELSE {NoMsg}

\* the history has room for the record of one more maneuver
HistoryRoom == Len(history) < MaxHist

\* the handler's result becomes the state, while the history holds no more
\* than rows
CommitWithin(s, rows) ==
    /\ Len(s.history) <= rows
    /\ pump_state' = s.pump
    /\ relay_states' = s.relay_states
    /\ gpio' = s.gpio
    /\ history' = s.history
    /\ cmds' = s.cmds

Commit(s) ==
    /\ Len(s.history) <= MaxHist
    /\ pump_state' = s.pump
    /\ relay_states' = s.relay_states
    /\ gpio' = s.gpio
    /\ history' = s.history
    /\ cmds' = s.cmds

Arrive(mid) ==
    /\ tank' = Delivered(mid)
    /\ last_update' = IF mid = NoMsg THEN last_update ELSE now

----------------------------------------------------------------------------
(* Initial state: initialize_session_state and get_system_controllers *)

InitPump == [running |-> FALSE, mode |-> "stopped", start_time |-> None,
             duration_limit |-> 0, start_levels |-> NoLevels,
             last_operation |-> NoOperation, next_scheduled |-> None,
             auto_enabled |-> TRUE]

Init ==
    /\ now \in InitInstants
    /\ deployment \in {"pi", "sim"}
    /\ gpio_initialized = TRUE
    /\ relays = IF deployment = "pi" THEN Relays ELSE {}
    /\ relay_active_high = [r \in Relays |-> IF r = 3 THEN relay3_active_high
                                                      ELSE relay4_active_high]
    /\ tank = [low |-> 0, high |-> 0]
    /\ last_update = now
    /\ pump_state = _update_next_scheduled_time([pump |-> InitPump]).pump
    /\ relay_states = [r \in Relays |-> FALSE]
    /\ gpio = [r \in Relays |-> "unset"]
    /\ history = <<>>
    /\ op = "init"
    /\ ret = "None"
    /\ cmds = IF deployment = "pi" THEN << <<3, FALSE>>, <<4, FALSE>> >> ELSE <<>>

----------------------------------------------------------------------------
(* Actions: one per handler *)

StartManualWithin(rows) ==
    /\ Len(history) < rows
    /\ \E mid \in Mids(start_manual_operation_ret(get_tank_levels) = "True") :
       \E bad \in Bads :
          /\ CommitWithin(start_manual_operation(Cur, get_tank_levels, Delivered(mid), bad), rows)
          /\ Arrive(mid)
    /\ op' = "start_manual"
    /\ ret' = start_manual_operation_ret(get_tank_levels)
    /\ UNCHANGED <<now, deployment, gpio_initialized, relays, relay_active_high>>

StartManual == StartManualWithin(MaxHist)

StartAuto ==
    /\ HistoryRoom
    /\ \E mid \in Mids(start_auto_operation_ret(get_tank_levels) = "True") :
       \E bad \in Bads :
          /\ Commit(start_auto_operation(Cur, get_tank_levels, Delivered(mid), bad))
          /\ Arrive(mid)
    /\ op' = "start_auto"
    /\ ret' = start_auto_operation_ret(get_tank_levels)
    /\ UNCHANGED <<now, deployment, gpio_initialized, relays, relay_active_high>>

StartMaintenanceWithin(rows) ==
    /\ Len(history) < rows
    /\ \E bad \in Bads :
          CommitWithin(start_maintenance_operation(Cur, get_tank_levels, bad), rows)
    /\ op' = "start_maintenance"
    /\ ret' = start_maintenance_operation_ret(get_tank_levels)
    /\ UNCHANGED <<now, deployment, gpio_initialized, relays, relay_active_high, tank, last_update>>

StartMaintenance == StartMaintenanceWithin(MaxHist)

\* stop_operation("manual"): the stop button
StopWithin(rows) ==
    /\ \E bad \in Bads :
          CommitWithin(stop_operation(Cur, "manual", get_tank_levels, bad), rows)
    /\ op' = "stop"
    /\ ret' = stop_operation_ret(Cur)
    /\ UNCHANGED <<now, deployment, gpio_initialized, relays, relay_active_high, tank, last_update>>

Stop == StopWithin(MaxHist)

\* update(): the periodic refresh of main()
TickWithin(rows) ==
    /\ \E mid \in Mids(/\ ~pump_state.running
                       /\ scheduled_due(pump_state)
                       /\ start_auto_operation_ret(get_tank_levels) = "True") :
       \E bad \in Bads :
          /\ CommitWithin(update(Cur, get_tank_levels, Delivered(mid), bad), rows)
          /\ Arrive(mid)
    /\ op' = "tick"
    /\ ret' = "None"
    /\ UNCHANGED <<now, deployment, gpio_initialized, relays, relay_active_high>>

Tick == TickWithin(MaxHist)

\* _on_message on the MQTT thread, between two handlers
Message ==
    /\ \E m \in Messages : Arrive(m)
    /\ op' = "message"
    /\ ret' = "None"
    /\ cmds' = <<>>
    /\ UNCHANGED <<now, deployment, gpio_initialized, relays, relay_active_high, pump_state,
                   relay_states, gpio, history>>

EnableAuto ==
    /\ \E enabled \in BOOLEAN :
          pump_state' = [pump_state EXCEPT !.auto_enabled = enabled]
    /\ op' = "enable_auto"
    /\ ret' = "None"
    /\ cmds' = <<>>
    /\ UNCHANGED <<now, deployment, gpio_initialized, relays, relay_active_high, tank, last_update,
                   relay_states, gpio, history>>

\* the clock moves on to a later reading
Advance ==
    /\ \E t \in Instants : t > now /\ now' = t
    /\ op' = "advance"
    /\ ret' = "None"
    /\ cmds' = <<>>
    /\ UNCHANGED <<deployment, gpio_initialized, relays, relay_active_high, tank, last_update,
                   pump_state, relay_states, gpio, history>>

Next ==
    \/ StartManual
    \/ StartAuto
    \/ StartMaintenance
    \/ Stop
    \/ Tick
    \/ Message
    \/ EnableAuto
    \/ Advance

Spec == Init /\ [][Next]_vars

----------------------------------------------------------------------------
(* The dashboard: render_monitoring_tab shows the start buttons only while  *)
(* the pump is stopped and the stop button only while it runs; main() is    *)
(* rerun by st_autorefresh every 3 s and calls update() each time.          *)

ButtonStartManual == ~pump_state.running /\ StartManual

ButtonStartAuto == ~pump_state.running /\ pump_state.auto_enabled /\ StartAuto

ButtonStartMaintenance == ~pump_state.running /\ StartMaintenance

ButtonStop == pump_state.running /\ Stop

\* the automatic-mode checkbox is left as it is
NextDashboard ==
    \/ ButtonStartManual
    \/ ButtonStartAuto
    \/ ButtonStartMaintenance
    \/ ButtonStop
    \/ Tick
    \/ Message
    \/ Advance

\* the refresh keeps ticking and the clock keeps advancing
LiveSpec == Init /\ [][NextDashboard]_vars /\ WF_vars(Tick) /\ WF_vars(Advance)

----------------------------------------------------------------------------
(* The relay driver on its own: RelayController built from any polarity    *)
(* configuration, and set_relay_state called directly.                     *)

RelayInit ==
    /\ now \in InitInstants
    /\ deployment \in {"pi", "sim"}
    /\ gpio_initialized = TRUE
    /\ relays = IF deployment = "pi" THEN Relays ELSE {}
    /\ relay_active_high \in [Relays -> BOOLEAN]
    /\ tank = [low |-> 0, high |-> 0]
    /\ last_update = now
    /\ pump_state = _update_next_scheduled_time([pump |-> InitPump]).pump
    /\ relay_states = [r \in Relays |-> FALSE]
    /\ gpio = [r \in Relays |-> "unset"]
    /\ history = <<>>
    /\ op = "init"
    /\ ret = "None"
    /\ cmds = IF deployment = "pi" THEN << <<3, FALSE>>, <<4, FALSE>> >> ELSE <<>>

SetRelayState ==
    /\ \E relay_num \in Relays : \E active \in BOOLEAN : \E bad \in Bads :
          Commit(set_relay_state(Cur, relay_num, active, bad))
    /\ op' = "set_relay_state"
    /\ ret' = "None"
    /\ UNCHANGED <<now, deployment, gpio_initialized, relays, relay_active_high, tank, last_update>>

RelayNext == SetRelayState

RelaySpec == RelayInit /\ [][RelayNext]_vars

----------------------------------------------------------------------------
(* The history file on its own: HistoryLogger.log_operation called as      *)
(* stop_operation calls it (one maneuver after the other, closed at now),  *)
(* the prune and the read of the history tab, over years of clock.         *)

\* a maneuver of 0 or 60 seconds is closed now and logged
LogOperation ==
    /\ Len(history) < MaxRows
    /\ \E duration \in {0, 60} : \E operation_type \in {"manual", "auto"} :
          /\ history # <<>> => now - duration >= RowEnd(history[Len(history)])
          /\ history' = log_operation(Cur, now - duration, now, get_tank_levels,
                                      get_tank_levels, operation_type, "manual").history
    /\ op' = "log_operation"
    /\ ret' = "None"
    /\ cmds' = <<>>
    /\ UNCHANGED <<now, deployment, gpio_initialized, relays, relay_active_high, tank, last_update,
                   pump_state, relay_states, gpio>>

CleanupOldRecords ==
    /\ history' = cleanup_old_records(history)
    /\ op' = "cleanup_old_records"
    /\ ret' = "None"
    /\ cmds' = <<>>
    /\ UNCHANGED <<now, deployment, gpio_initialized, relays, relay_active_high, tank, last_update,
                   pump_state, relay_states, gpio>>

\* the read changes nothing; what it returns is get_recent_history(history, days)
GetRecentHistory ==
    /\ \E days \in Periods : get_recent_history(history, days) # {}
    /\ op' = "get_recent_history"
    /\ ret' = "DataFrame"
    /\ cmds' = <<>>
    /\ UNCHANGED <<now, deployment, gpio_initialized, relays, relay_active_high, tank, last_update,
                   pump_state, relay_states, gpio, history>>

\* the clock moves on by days
AdvanceDays ==
    /\ \E d \in HistoryDays :
          /\ TimeOf(now) + d * DaySeconds > now
          /\ now' = TimeOf(now) + d * DaySeconds
    /\ op' = "advance"
    /\ ret' = "None"
    /\ cmds' = <<>>
    /\ UNCHANGED <<deployment, gpio_initialized, relays, relay_active_high, tank, last_update,
                   pump_state, relay_states, gpio, history>>

HistoryNext ==
    \/ LogOperation
    \/ CleanupOldRecords
    \/ GetRecentHistory
    \/ AdvanceDays

HistorySpec == Init /\ [][HistoryNext]_vars

----------------------------------------------------------------------------
(* The handlers on a history that already has rows, and the read of the    *)
(* history tab between them.                                               *)

AppendStartManual == StartManualWithin(AppendRows)

AppendStartMaintenance == StartMaintenanceWithin(AppendRows)

AppendStop == StopWithin(AppendRows)

AppendTick == TickWithin(AppendRows)

AppendNext ==
    \/ AppendStartManual
    \/ AppendStartMaintenance
    \/ AppendStop
    \/ AppendTick
    \/ Message
    \/ GetRecentHistory

AppendSpec == Init /\ [][AppendNext]_vars

----------------------------------------------------------------------------
(* Shutdown: RelayController.cleanup called in any controller state.       *)

Cleanup ==
    /\ Commit(cleanup(Cur))
    /\ op' = "cleanup"
    /\ ret' = "None"
    /\ UNCHANGED <<now, deployment, gpio_initialized, relays, relay_active_high, tank, last_update>>

ShutdownNext ==
    \/ StartManual
    \/ StartAuto
    \/ StartMaintenance
    \/ Message
    \/ Cleanup

ShutdownSpec == Init /\ [][ShutdownNext]_vars

----------------------------------------------------------------------------
(* The level feed on its own: _on_message on every kind of payload.        *)

Topics == {3, 4}

\* {"value": v}, a bare number v, an object without "value", text that is not JSON
Payloads(topic) ==
    [kind : {"object", "number"},
     value : IF topic = 3 THEN LowValues ELSE HighValues]
    \cup [kind : {"object_without_value", "invalid_json"}, value : {0}]

Stored == [levels |-> get_tank_levels, last_update |-> last_update]

Ingest ==
    /\ \E topic \in Topics : \E payload \in Payloads(topic) :
          LET m == _on_message(Stored, topic, payload)
          IN  /\ tank' = m.levels
              /\ last_update' = m.last_update
    /\ op' = "message"
    /\ ret' = "None"
    /\ cmds' = <<>>
    /\ UNCHANGED <<now, deployment, gpio_initialized, relays, relay_active_high, pump_state,
                   relay_states, gpio, history>>

IngestNext ==
    \/ Ingest
    \/ Advance

IngestSpec == Init /\ [][IngestNext]_vars

----------------------------------------------------------------------------
(* Vocabulary of the properties *)

Idle    == ~pump_state.running
Running == pump_state.running

\* the level data is older than the stale window
Stale == now - last_update > StaleWindow

\* the 15/99 interlock of the manual and scheduled starts fails on these levels
Refused(levels) == levels.low <= 15 \/ levels.high >= 99

StartOps == {"start_manual", "start_auto", "start_maintenance"}

\* some set_relay_state(_, True) call was made by the last handler
CommandedOn(calls) == \E i \in DOMAIN calls : calls[i][2] = TRUE

\* the last call the handler made for relay r was set_relay_state(r, False)
CommandedOff(calls, r) ==
    /\ \E i \in DOMAIN calls : calls[i][1] = r
    /\ \A i \in DOMAIN calls :
          (calls[i][1] = r /\ \A j \in DOMAIN calls : j > i => calls[j][1] # r)
              => calls[i][2] = FALSE

LastRow == history[Len(history)]

\* seconds the open maneuver has been running
Elapsed == now - pump_state.start_time

----------------------------------------------------------------------------
(* C1. Interlock safety: a manual or scheduled start called on an Idle     *)
(* controller with low <= 15, or high >= 99, or level data older than the  *)
(* stale window returns false, leaves the controller Idle and makes no     *)
(* set_relay_state(_, True) call.                                          *)
C1_InterlockSafety ==
    [][ ( /\ op' \in {"start_manual", "start_auto"}
          /\ Idle
          /\ (Refused(tank) \/ Stale) )
        => ( /\ ret' = "False"
             /\ ~pump_state'.running
             /\ ~CommandedOn(cmds') ) ]_vars

(* C2. Mutual exclusion of starts: a start call made while the controller  *)
(* is Running returns false, leaves start_time, mode, duration_limit and   *)
(* start_levels of the open maneuver as they were and adds no history row. *)
C2_StartWhileRunningRefused ==
    [][ (op' \in StartOps /\ Running)
        => ( /\ ret' = "False"
             /\ pump_state'.running
             /\ pump_state'.start_time = pump_state.start_time
             /\ pump_state'.mode = pump_state.mode
             /\ pump_state'.duration_limit = pump_state.duration_limit
             /\ pump_state'.start_levels = pump_state.start_levels
             /\ history' = history ) ]_vars

(* C3. State/record invariant: in every reachable state running is true    *)
(* iff start_time is not None iff mode is not 'stopped'; the single         *)
(* pump_state holds at most one open maneuver.                              *)
C3_StateRecordInvariant ==
    /\ pump_state.running <=> pump_state.start_time # None
    /\ pump_state.running <=> pump_state.mode # "stopped"
    /\ pump_state.running => pump_state.mode \in {"manual", "auto", "maintenance"}

\* a maneuver was opened, ran and has been closed by a tick
C3_Witness ==
    /\ op = "tick"
    /\ Idle
    /\ Len(history) = 1
    /\ pump_state.start_time = None

(* C4. A manual or scheduled start refused by the level interlock appends  *)
(* exactly one closed row to the history (start = end, duration 0, the     *)
(* requested type, stop reason InterlockFailed) and leaves the controller  *)
(* Idle.                                                                   *)
C4_RefusedStartIsRecorded ==
    [][ ( /\ op' \in {"start_manual", "start_auto"}
          /\ Idle
          /\ Refused(tank) )
        => ( /\ ret' = "False"
             /\ ~pump_state'.running
             /\ Len(history') = Len(history) + 1
             /\ LET row == history'[Len(history')]
                IN  /\ RowStart(row) = now
                    /\ RowEnd(row) = now
                    /\ row.durada_segons = 0
                    /\ row.tipus_maniobra =
                          (IF op' = "start_manual" THEN "manual" ELSE "auto")
                    /\ row.motiu_aturada = "InterlockFailed" ) ]_vars

(* C5. stop_operation on a Running controller returns true, commands both  *)
(* relays OFF, leaves the controller Idle (running false, mode 'stopped',  *)
(* start_time None) and appends exactly one row carrying the maneuver's    *)
(* start time, start levels, type and the stop reason given; the same row  *)
(* is written when a tick closes the maneuver.                             *)
ClosedRow(row) ==
    /\ RowStart(row) = pump_state.start_time
    /\ row.nivell_baix_inici = pump_state.start_levels.low
    /\ row.nivell_alt_inici = pump_state.start_levels.high
    /\ row.tipus_maniobra = pump_state.mode

C5_StopClosesManeuver ==
    [][ /\ (op' = "stop" /\ Running)
           => ( /\ ret' = "True"
                /\ cmds' = << <<3, FALSE>>, <<4, FALSE>> >>
                /\ ~pump_state'.running
                /\ pump_state'.mode = "stopped"
                /\ pump_state'.start_time = None
                /\ Len(history') = Len(history) + 1
                /\ SubSeq(history', 1, Len(history)) = history
                /\ ClosedRow(history'[Len(history')])
                /\ history'[Len(history')].motiu_aturada = "manual" )
        /\ (op' = "tick" /\ Running /\ ~pump_state'.running)
           => ( /\ CommandedOff(cmds', 3)
                /\ CommandedOff(cmds', 4)
                /\ pump_state'.mode = "stopped"
                /\ pump_state'.start_time = None
                /\ Len(history') = Len(history) + 1
                /\ SubSeq(history', 1, Len(history)) = history
                /\ ClosedRow(history'[Len(history')])
                /\ history'[Len(history')].motiu_aturada
                      \in {"temps_limit", "nivell_baix", "nivell_alt"} ) ]_vars

\* a maintenance maneuver was closed by the stop button
C5_Witness ==
    /\ op = "stop"
    /\ ret = "True"
    /\ Idle
    /\ Len(history) = 1
    /\ LastRow.tipus_maniobra = "maintenance"
    /\ LastRow.motiu_aturada = "manual"

(* C6. Idle stop is a no-op: stop_operation on an Idle controller returns  *)
(* false and changes neither the history, nor the relay states, nor        *)
(* next_scheduled, nor the rest of the controller state; it commands no    *)
(* relay.                                                                  *)
C6_IdleStopNoOp ==
    [][ (op' = "stop" /\ Idle)
        => ( /\ ret' = "False"
             /\ history' = history
             /\ relay_states' = relay_states
             /\ gpio' = gpio
             /\ pump_state' = pump_state
             /\ cmds' = <<>> ) ]_vars

(* C7. Deadline precedence: when a tick of a Running maneuver finds both   *)
(* elapsed >= duration_limit and a level threshold violated, the row it    *)
(* writes has the threshold as stop reason (nivell_baix if low <= 15, else *)
(* nivell_alt), not temps_limit.                                           *)
C7_ThresholdBeforeDeadline ==
    [][ ( /\ op' = "tick"
          /\ Running
          /\ Elapsed >= pump_state.duration_limit
          /\ Refused(tank) )
        => ( /\ ~pump_state'.running
             /\ Len(history') = Len(history) + 1
             /\ history'[Len(history')].motiu_aturada =
                   (IF tank.low <= 15 THEN "nivell_baix" ELSE "nivell_alt") ) ]_vars

(* C8. Level auto-stop: a tick of a Running manual or scheduled maneuver   *)
(* whose deadline has not been reached closes it with nivell_baix if       *)
(* low <= 15 (also when high >= 99), with nivell_alt if low > 15 and       *)
(* high >= 99, and leaves it Running with low > 15 and high < 99.          *)
C8_LevelAutoStop ==
    [][ ( /\ op' = "tick"
          /\ Running
          /\ pump_state.mode \in {"manual", "auto"}
          /\ Elapsed < pump_state.duration_limit )
        => ( /\ tank.low <= 15
                => ( /\ ~pump_state'.running
                     /\ Len(history') = Len(history) + 1
                     /\ history'[Len(history')].motiu_aturada = "nivell_baix" )
             /\ (tank.low > 15 /\ tank.high >= 99)
                => ( /\ ~pump_state'.running
                     /\ Len(history') = Len(history) + 1
                     /\ history'[Len(history')].motiu_aturada = "nivell_alt" )
             /\ (tank.low > 15 /\ tank.high < 99)
                => ( /\ pump_state'.running
                     /\ pump_state'.start_time = pump_state.start_time
                     /\ history' = history ) ) ]_vars

\* a tick closed a manual maneuver before its deadline with both thresholds
\* violated, and the reason is the low level
C8_Witness ==
    /\ op = "tick"
    /\ Idle
    /\ Len(history) = 1
    /\ LastRow.tipus_maniobra = "manual"
    /\ LastRow.durada_segons < durada_max_manual * 60
    /\ LastRow.nivell_baix_final <= 15
    /\ LastRow.nivell_alt_final >= 99
    /\ LastRow.motiu_aturada = "nivell_baix"

(* C9. Deadline auto-stop: an open maneuver has the limit                  *)
(* durada_max_manual*60 s (manual), durada_max_maniobra*60 s (scheduled)   *)
(* or temps_manteniment s (maintenance); with the levels inside the        *)
(* thresholds a tick at elapsed < limit leaves it Running and a tick at    *)
(* elapsed >= limit closes it with temps_limit; no row has the reason      *)
(* temps_limit with a duration below the limit of its type.                *)
LimitOf(mode) ==
    IF mode = "manual" THEN durada_max_manual * 60
    ELSE IF mode = "auto" THEN durada_max_maniobra * 60
    ELSE temps_manteniment

C9_DeadlineAutoStop ==
    [][ /\ pump_state'.running
           => pump_state'.duration_limit = LimitOf(pump_state'.mode)
        /\ \A i \in DOMAIN history' :
              history'[i].motiu_aturada = "temps_limit"
                 => history'[i].durada_segons >= LimitOf(history'[i].tipus_maniobra)
        /\ (op' = "tick" /\ Running /\ ~Refused(tank))
           => IF Elapsed < pump_state.duration_limit
              THEN /\ pump_state'.running
                   /\ pump_state'.start_time = pump_state.start_time
                   /\ history' = history
              ELSE /\ ~pump_state'.running
                   /\ Len(history') = Len(history) + 1
                   /\ history'[Len(history')].motiu_aturada = "temps_limit" ]_vars

\* a manual maneuver was closed by the tick at exactly its limit
C9_Witness ==
    /\ op = "tick"
    /\ Idle
    /\ Len(history) = 1
    /\ LastRow.tipus_maniobra = "manual"
    /\ LastRow.motiu_aturada = "temps_limit"
    /\ LastRow.durada_segons = durada_max_manual * 60
    /\ LastRow.nivell_baix_final > 15
    /\ LastRow.nivell_alt_final < 99

(* C10. Liveness of force-stop: with the refresh ticking and the clock     *)
(* advancing, every Running maneuver of any type whose deadline lies       *)
(* within the clock readings explored, and whose row the history can still *)
(* take, leads to an Idle controller whose last commands to both relays    *)
(* are OFF, whatever the levels do and with or without a manual stop.      *)
DeadlineInReach ==
    /\ Running
    /\ Len(history) < MaxHist
    /\ pump_state.start_time + pump_state.duration_limit <= LastInstant

----------------------------------------------------------------------------
(* C11. Maintenance interlock asymmetry: start_maintenance_operation on an *)
(* Idle controller returns true and opens a maintenance maneuver iff       *)
(* low > 10, whatever the high level and the age of the level data; with   *)
(* low <= 10 it returns false and leaves the controller as it was.         *)
C11_MaintenanceInterlock ==
    [][ (op' = "start_maintenance" /\ Idle)
        => IF tank.low > 10
           THEN /\ ret' = "True"
                /\ pump_state'.running
                /\ pump_state'.mode = "maintenance"
                /\ pump_state'.start_time = now
           ELSE /\ ret' = "False"
                /\ pump_state' = pump_state
                /\ history' = history
                /\ cmds' = <<>> ]_vars

\* a maintenance maneuver was started on levels that refuse the other starts
\* (10 < low <= 15 and high >= 99) and on stale level data
C11_Witness ==
    /\ op = "start_maintenance"
    /\ ret = "True"
    /\ Running
    /\ pump_state.mode = "maintenance"
    /\ tank.low > 10
    /\ tank.low <= 15
    /\ tank.high >= 99
    /\ Stale

(* C12. Maintenance relay forcing: a maintenance start commands both       *)
(* relays ON whatever the levels, and a tick of a Running maintenance      *)
(* maneuver does not gate the relays by the 15/99 thresholds: the only OFF *)
(* commands it makes are the two of the stop that closes the maneuver.     *)
C12_MaintenanceForcesRelays ==
    [][ /\ (op' = "start_maintenance" /\ ret' = "True")
           => cmds' = << <<3, TRUE>>, <<4, TRUE>> >>
        /\ (op' = "tick" /\ Running /\ pump_state.mode = "maintenance")
           => \A i \in DOMAIN cmds' :
                 cmds'[i][2] = FALSE
                    => (~pump_state'.running /\ i > Len(cmds') - 2) ]_vars

(* C13. Polarity mapping: on the Raspberry Pi, for each relay and each     *)
(* logical value, a set_relay_state call whose output succeeds drives the  *)
(* pin HIGH iff (active if active_high else not active); every pin driven  *)
(* so far shows the recorded logical state through the polarity; with      *)
(* active_high false OFF drives HIGH and ON drives LOW.                    *)
Level(b) == IF b THEN "HIGH" ELSE "LOW"

C13_PolarityMapping ==
    deployment = "pi" =>
       \A r \in Relays :
          /\ \A active \in BOOLEAN :
                set_relay_state(Cur, r, active, {}).gpio[r] =
                   Level(IF relay_active_high[r] THEN active ELSE ~active)
          /\ gpio[r] # "unset"
                => gpio[r] = Level(IF relay_active_high[r] THEN relay_states[r]
                                                           ELSE ~relay_states[r])
          /\ ~relay_active_high[r]
                => /\ set_relay_state(Cur, r, FALSE, {}).gpio[r] = "HIGH"
                   /\ set_relay_state(Cur, r, TRUE, {}).gpio[r] = "LOW"

\* relay 3 (active low) and relay 4 (active high) have both been switched ON:
\* pin 3 is LOW and pin 4 is HIGH
C13_Witness ==
    /\ op = "set_relay_state"
    /\ deployment = "pi"
    /\ ~relay_active_high[3]
    /\ relay_active_high[4]
    /\ relay_states[3]
    /\ relay_states[4]
    /\ gpio[3] = "LOW"
    /\ gpio[4] = "HIGH"

(* C14. Logical relay state tracking: after set_relay_state(relay, active) *)
(* has been called, at construction or later, get_relay_state(relay) is    *)
(* the value of the last call for that relay, on the Raspberry Pi and in   *)
(* simulation, and also when the output operation fails.                   *)
LastCommanded(calls, r) ==
    LET is == {i \in DOMAIN calls : calls[i][1] = r}
    IN  calls[CHOOSE i \in is : \A j \in is : j <= i][2]

C14_LogicalStateTracking ==
    \A r \in Relays :
       (\E i \in DOMAIN cmds : cmds[i][1] = r)
          => get_relay_state(r) = LastCommanded(cmds, r)

Written(m) == [low  |-> IF m[1] = 3 THEN m[2] ELSE tank.low,
               high |-> IF m[1] = 4 THEN m[2] ELSE tank.high]

C16_Ingestion ==
    [][ /\ \A m \in Messages : on_message(get_tank_levels, m[1], m[2]) = Written(m)
        /\ op' = "message"
           => ( /\ \E m \in Messages : tank' = Written(m)
                /\ last_update' = now )
        /\ (op' = "start_maintenance" /\ ret' = "True")
           => pump_state'.start_levels = tank ]_vars

\* a handler has read the levels after one message per tank: both values are
\* the ones the messages carried
C16_Witness ==
    /\ op = "start_maintenance"
    /\ ret = "True"
    /\ pump_state.start_levels = [low |-> 20, high |-> 99]
    /\ tank = [low |-> 20, high |-> 99]

(* C17. Malformed payloads are dropped: text that is not JSON, or a JSON   *)
(* object without a "value" field, on either level topic leaves both       *)
(* stored levels as they were.                                             *)
C17_MalformedDropped ==
    \A topic \in Topics : \A payload \in Payloads(topic) :
       payload.kind \in {"invalid_json", "object_without_value"}
          => _on_message(Stored, topic, payload).levels = get_tank_levels

(* C18. A bare number on a level topic is accepted as a reading: the       *)
(* stored level of that tank becomes the number times 100, as for the      *)
(* object {"value": number}.                                               *)
C18_BareNumberAccepted ==
    \A topic \in Topics : \A payload \in Payloads(topic) :
       payload.kind = "number"
          => _on_message(Stored, topic, payload).levels =
                Written(<<topic, payload.value>>)

(* C19. Next scheduled time: whenever a handler recomputes next_scheduled  *)
(* (every start_auto_operation call, from the button or from the tick), it *)
(* is today's occurrence of hora_maniobra if that time has not yet passed  *)
(* and no operation has been closed today, and tomorrow's otherwise.       *)
ScheduledToday == (now - (now % DaySeconds)) + hora_maniobra

\* a manual or scheduled maneuver was closed on the day of now
OperationToday(pump) ==
    /\ pump.last_operation.end_time # None
    /\ pump.last_operation.mode # "maintenance"
    /\ DateOf(pump.last_operation.end_time) = DateOf(now)

Recomputes ==
    \/ op' = "start_auto"
    \/ op' = "tick" /\ Idle /\ scheduled_due(pump_state)

C19_NextScheduledTime ==
    [][ Recomputes
        => pump_state'.next_scheduled =
              IF now < ScheduledToday /\ ~OperationToday(pump_state')
              THEN ScheduledToday
              ELSE ScheduledToday + DaySeconds ]_vars

(* C20. At most one scheduled maneuver per day: a tick starts a scheduled  *)
(* maneuver only when now is within the window of next_scheduled and no    *)
(* scheduled maneuver has been closed earlier on the same day.             *)
ScheduledClosedToday ==
    \/ \E i \in DOMAIN history :
          /\ history[i].tipus_maniobra = "auto"
          /\ history[i].data_final = DateOf(now)
    \/ /\ pump_state.last_operation.mode = "auto"
       /\ DateOf(pump_state.last_operation.end_time) = DateOf(now)

\* the tick found the controller Idle and opened a maneuver
TickStarts ==
    /\ op' = "tick"
    /\ Idle
    /\ pump_state'.running \/ Len(history') > Len(history)

C20_OneScheduledPerDay ==
    [][ TickStarts => (scheduled_due(pump_state) /\ ~ScheduledClosedToday) ]_vars

(* C21. Maintenance cycle bookkeeping: maintenance is due while no         *)
(* maintenance maneuver has been closed, or periode_manteniment days have  *)
(* passed since the last one; a tick of an Idle controller then starts a   *)
(* maintenance maneuver (unless the scheduled maneuver is due, which goes  *)
(* first), and a tick does not start one while it is not due.              *)
MaintenanceRows == {i \in DOMAIN history : history[i].tipus_maniobra = "maintenance"}

\* the day the last maintenance maneuver was closed
last_maintenance_date ==
    IF MaintenanceRows = {} THEN None
    ELSE history[CHOOSE i \in MaintenanceRows : \A j \in MaintenanceRows : j <= i].data_final

maintenance_due ==
    /\ ~pump_state.running
    /\ \/ last_maintenance_date = None
       \/ DateOf(now) - last_maintenance_date >= periode_manteniment

C21_MaintenanceCycle ==
    [][ /\ ( /\ op' = "tick"
             /\ Idle
             /\ maintenance_due
             /\ ~scheduled_due(pump_state)
             /\ tank.low > 10 )
           => (pump_state'.running /\ pump_state'.mode = "maintenance")
        /\ (op' = "tick" /\ Idle /\ ~maintenance_due)
           => pump_state'.mode # "maintenance" ]_vars

(* C22. Fail-safe shutdown: cleanup, called with the controller Idle or    *)
(* Running in any mode, commands both relays logically OFF.                *)
C22_ShutdownAllOff ==
    [][ op' = "cleanup"
        => ( /\ CommandedOff(cmds', 3)
             /\ CommandedOff(cmds', 4)
             /\ ~get_relay_state(3)'
             /\ ~get_relay_state(4)' ) ]_vars

(* C23. Relay fault tolerance: whichever output fails inside               *)
(* set_relay_state, every handler ends in the controller state, history    *)
(* and sequence of relay commands it has without the fault, and the relays *)
(* whose output works are driven as without it; a stop of a Running        *)
(* maneuver commands relay 3 and relay 4 OFF once each, appends the row    *)
(* and leaves the controller Idle; a start on good levels returns true and *)
(* opens the maneuver.                                                     *)
SameButFailed(f, g, bad) ==
    /\ f.pump = g.pump
    /\ f.history = g.history
    /\ f.cmds = g.cmds
    /\ \A r \in Relays \ bad :
          f.gpio[r] = g.gpio[r] /\ f.relay_states[r] = g.relay_states[r]

C23_RelayFaultTolerance ==
    \A bad \in Bads :
       /\ SameButFailed(stop_operation(Cur, "manual", get_tank_levels, bad),
                        stop_operation(Cur, "manual", get_tank_levels, {}), bad)
       /\ SameButFailed(start_manual_operation(Cur, get_tank_levels, get_tank_levels, bad),
                        start_manual_operation(Cur, get_tank_levels, get_tank_levels, {}), bad)
       /\ SameButFailed(start_auto_operation(Cur, get_tank_levels, get_tank_levels, bad),
                        start_auto_operation(Cur, get_tank_levels, get_tank_levels, {}), bad)
       /\ SameButFailed(start_maintenance_operation(Cur, get_tank_levels, bad),
                        start_maintenance_operation(Cur, get_tank_levels, {}), bad)
       /\ SameButFailed(update(Cur, get_tank_levels, get_tank_levels, bad),
                        update(Cur, get_tank_levels, get_tank_levels, {}), bad)
       /\ Running
             => LET s == stop_operation(Cur, "manual", get_tank_levels, bad)
                IN  /\ s.cmds = << <<3, FALSE>>, <<4, FALSE>> >>
                    /\ ~s.pump.running
                    /\ Len(s.history) = Len(history) + 1
       /\ ~Refused(tank)
             => LET s == start_manual_operation(Cur, get_tank_levels, get_tank_levels, bad)
                IN  /\ start_manual_operation_ret(get_tank_levels) = "True"
                    /\ s.pump.running
                    /\ s.cmds = << <<3, TRUE>>, <<4, TRUE>> >>

\* a stop whose output to relay 3 failed: relay 3 is still recorded ON, relay 4
\* was switched OFF, the row was appended and the controller is Idle
C23_Witness ==
    /\ op = "stop"
    /\ ret = "True"
    /\ deployment = "pi"
    /\ cmds = << <<3, FALSE>>, <<4, FALSE>> >>
    /\ relay_states[3]
    /\ ~relay_states[4]
    /\ gpio[3] = "LOW"
    /\ gpio[4] = "HIGH"
    /\ Idle
    /\ Len(history) = 1

(* C24. Retention pruning: after cleanup_old_records at time now with the  *)
(* retention of retencio_historic_anys years, no row that starts before    *)
(* now minus the retention remains, and the rows that start at or after it *)
(* are all there, in their order and with their field values.              *)
Retention == (retencio_historic_anys * 365) * DaySeconds

C24_RetentionPruning ==
    [][ op' = "cleanup_old_records"
        => ( /\ \A i \in DOMAIN history' : RowStart(history'[i]) >= now - Retention
             /\ history' = SelectSeq(history,
                                     LAMBDA row : RowStart(row) >= now - Retention) ) ]_vars

\* a prune left a row that starts exactly at the cutoff, followed by a newer one
C24_Witness ==
    /\ op = "cleanup_old_records"
    /\ Len(history) = 2
    /\ RowStart(history[1]) = now - Retention
    /\ RowStart(history[2]) > now - Retention

(* C26. History query order: get_recent_history over a period returns      *)
(* exactly the rows that start within the period, oldest start first.      *)
C26_QueryChronological ==
    \A days \in Periods : \A df \in get_recent_history(history, days) :
       LET inside == SelectSeq(history,
                               LAMBDA row : RowStart(row) >= now - days * DaySeconds)
       IN  /\ Len(df) = Len(inside)
           /\ {df[i] : i \in DOMAIN df} = {inside[i] : i \in DOMAIN inside}
           /\ \A i, j \in DOMAIN df : i < j => RowStart(df[i]) <= RowStart(df[j])

(* C25. The history is append-only between prunes: every step other than   *)
(* cleanup_old_records (start, stop, tick, message, history read) leaves   *)
(* the rows already there unchanged and in their positions; a row is only  *)
(* added at the end, one per maneuver closed, by the handler that closes   *)
(* it.                                                                     *)
C25_AppendOnly ==
    [][ op' # "cleanup_old_records"
        => ( /\ Len(history') \in {Len(history), Len(history) + 1}
             /\ SubSeq(history', 1, Len(history)) = history
             /\ (Running /\ ~pump_state'.running)
                   => Len(history') = Len(history) + 1
             /\ Len(history') = Len(history) + 1
                   => ( /\ op' \in {"stop", "tick", "start_manual", "start_auto"}
                        /\ ~pump_state'.running
                        /\ RowEnd(history'[Len(history')]) = now
                        /\ history'[Len(history')].tipus_maniobra
                              = pump_state'.last_operation.mode )
             /\ op' \in {"message", "get_recent_history", "start_maintenance"}
                   => history' = history ) ]_vars

\* the history tab was read after a second maneuver was closed and its row
\* added behind the first one
C25_Witness ==
    /\ op = "get_recent_history"
    /\ Len(history) = 2
    /\ history[1].tipus_maniobra = "maintenance"
    /\ history[2].tipus_maniobra = "manual"
    /\ pump_state.last_operation.mode = "manual"

(* C27. Initial state and no-data refusal: the freshly initialised system  *)
(* is Idle with no open maneuver, both relays logically OFF and an empty   *)
(* history; while the stored levels are still the initial 0 % (no reading  *)
(* has set them), every manual, scheduled or maintenance start returns     *)
(* false, leaves the controller Idle, commands no relay ON and adds no     *)
(* row.                                                                    *)
NoReading == tank = [low |-> 0, high |-> 0]

C27_InitialStateAndNoData ==
    [][ /\ op = "init"
           => ( /\ Idle
                /\ pump_state.mode = "stopped"
                /\ pump_state.start_time = None
                /\ ~get_relay_state(3)
                /\ ~get_relay_state(4)
                /\ ~CommandedOn(cmds)
                /\ history = <<>> )
        /\ (op' \in StartOps /\ NoReading)
           => ( /\ ret' = "False"
                /\ ~pump_state'.running
                /\ ~CommandedOn(cmds')
                /\ relay_states' = relay_states
                /\ history' = history ) ]_vars

\* a manual start was refused on a system that has ingested no reading, some
\* time after it was initialised
C27_Witness ==
    /\ op = "start_manual"
    /\ ret = "False"
    /\ NoReading
    /\ now > Hms(11,59,0)
    /\ Idle
    /\ cmds = <<>>
    /\ history = <<>>
    /\ ~get_relay_state(3)
    /\ ~get_relay_state(4)

(* C28. Per-relay gating in manual and scheduled mode: a successful manual *)
(* or scheduled start (by the button or by a tick) and every tick of a     *)
(* Running manual or scheduled maneuver first command relay 3 ON exactly   *)
(* when the low level just read is above 15 % and relay 4 ON exactly when  *)
(* the high level just read is below 99 %; neither command depends on the  *)
(* other level.                                                            *)
GatedMode == pump_state.mode \in {"manual", "auto"}

\* the handler being taken runs the gating of a manual or scheduled maneuver
Gates ==
    \/ op' \in {"start_manual", "start_auto"} /\ ret' = "True"
    \/ op' = "tick" /\ Running /\ GatedMode
    \/ op' = "tick" /\ Idle /\ scheduled_due(pump_state) /\ ~Refused(tank)

C28_PerRelayGating ==
    [][ Gates => ( /\ Len(cmds') >= 2
                   /\ cmds'[1] = <<3, tank'.low > 15>>
                   /\ cmds'[2] = <<4, tank'.high < 99>> ) ]_vars

\* a tick of a Running maneuver gated relay 3 ON and relay 4 OFF: the low
\* level was above 15 % and the high level had reached 99 %
C28_Witness ==
    /\ op = "tick"
    /\ Len(cmds) >= 2
    /\ cmds[1] = <<3, TRUE>>
    /\ cmds[2] = <<4, FALSE>>
    /\ tank.low > 15
    /\ tank.high >= 99

(* C29. Relay toggling inside one open maneuver: a tick of a Running       *)
(* manual or scheduled maneuver whose deadline has not come, and which     *)
(* gates exactly one relay OFF because only that relay's threshold has     *)
(* flipped, leaves the maneuver Running (so that a later tick of the same  *)
(* maneuver can switch the relay back ON).                                 *)
OnlyOneFlipped(levels) == (levels.low <= 15) # (levels.high >= 99)

\* the tick being taken gates one relay OFF and the other ON
GatesOneOff ==
    /\ op' = "tick"
    /\ Running
    /\ GatedMode
    /\ Elapsed < pump_state.duration_limit
    /\ OnlyOneFlipped(tank')
    /\ Len(cmds') >= 2
    /\ (cmds'[1][2] = FALSE) # (cmds'[2][2] = FALSE)

C29_RelayToggling == [][ GatesOneOff => pump_state'.running ]_vars

\* what the code does instead: a tick that leaves a manual or scheduled
\* maneuver Running has gated both relays ON, so no relay is ever OFF
\* inside an open maneuver
TickKeepsRunningGatesOn ==
    [][ (op' = "tick" /\ Running /\ GatedMode /\ pump_state'.running)
           => cmds' = << <<3, TRUE>>, <<4, TRUE>> >> ]_vars

(* C30. A refused scheduled start is rescheduled for tomorrow: a tick that *)
(* finds the scheduled maneuver due and is refused by the level interlock  *)
(* sets next_scheduled to the configured time of the next day, so that the *)
(* scheduled start is no longer due on the same day.                       *)
TickRefused ==
    /\ op' = "tick"
    /\ Idle
    /\ scheduled_due(pump_state)
    /\ Refused(tank')

C30_RefusedRescheduledTomorrow ==
    [][ TickRefused
        => ( /\ pump_state'.next_scheduled = ScheduledToday + DaySeconds
             /\ ~scheduled_due(pump_state') ) ]_vars

(* C31. Schedule liveness: with automatic mode enabled, next_scheduled     *)
(* does not stay in the past beyond the schedule window while the          *)
(* controller is Idle: after a schedule window that passed without an      *)
(* attempt because a manual or maintenance maneuver was Running throughout *)
(* it, a tick that finds the controller Idle with automatic mode enabled   *)
(* leaves next_scheduled no more than the window behind the clock, so that *)
(* the scheduled start is attempted at the next configured time.           *)
ScheduleWindow == 60

\* the last maneuver, manual or maintenance, was open from the beginning to
\* the end of the window of next_scheduled
RanThroughWindow ==
    LET last == pump_state.last_operation
    IN  /\ last.mode \in {"manual", "maintenance"}
        /\ last.end_time # None
        /\ pump_state.next_scheduled # None
        /\ last.end_time - last.duration <= pump_state.next_scheduled - ScheduleWindow
        /\ last.end_time >= pump_state.next_scheduled + ScheduleWindow

C31_ScheduleLiveness ==
    [][ (op' = "tick" /\ Idle /\ pump_state.auto_enabled /\ RanThroughWindow)
           => pump_state'.next_scheduled >= now - ScheduleWindow ]_vars

(* C32. A successful start leaves the controller Running whatever level    *)
(* message is delivered while it runs: when a manual or scheduled start    *)
(* (the button, or the tick that finds the schedule due) has passed the    *)
(* interlock, the controller is Running on return with that maneuver open, *)
(* and the start itself has written no history record.                     *)
StartSucceeds ==
    \/ op' \in {"start_manual", "start_auto"} /\ ret' = "True"
    \/ op' = "tick" /\ Idle /\ scheduled_due(pump_state) /\ ~Refused(tank)

C32_StartLeavesRunning ==
    [][ StartSucceeds
           => ( /\ pump_state'.running
                /\ pump_state'.start_time = now
                /\ history' = history ) ]_vars

(* C33. A maintenance maneuver is not cut short by the 15 % threshold: a   *)
(* tick of a Running maintenance maneuver that was started with            *)
(* 10 < low <= 15 and high < 99, and whose levels are still those of its   *)
(* start, leaves it Running while its duration has not elapsed and closes  *)
(* it with the reason temps_limit once it has.                             *)
RelaxedMaintenance ==
    /\ Running
    /\ pump_state.mode = "maintenance"
    /\ pump_state.start_levels.low > 10
    /\ pump_state.start_levels.low <= 15
    /\ pump_state.start_levels.high < 99
    /\ tank = pump_state.start_levels

C33_MaintenanceNotCutShort ==
    [][ (op' = "tick" /\ RelaxedMaintenance)
           => IF Elapsed < pump_state.duration_limit
              THEN pump_state'.running
              ELSE /\ ~pump_state'.running
                   /\ pump_state'.last_operation.reason = "temps_limit" ]_vars

(* C34. Pump off when Idle: in every state reached by a completed start,   *)
(* stop or tick in which the controller is Idle both relays are logically  *)
(* OFF; a relay is logically ON only while a maneuver is open.             *)
HandlerOps == StartOps \cup {"stop", "tick"}

C34_PumpOffWhenIdle ==
    (op \in HandlerOps /\ Idle) => (~get_relay_state(3) /\ ~get_relay_state(4))

(* C35. Automatic mode disabled: while auto_enabled is false a tick that   *)
(* finds the controller Idle changes nothing: it starts no maneuver, makes *)
(* no relay command, writes no history record and leaves next_scheduled    *)
(* (and the rest of the controller state) as it was, at any time of day,   *)
(* the schedule window included.                                           *)
C35_AutoDisabledTick ==
    [][ (op' = "tick" /\ Idle /\ ~pump_state.auto_enabled)
           => ( /\ pump_state' = pump_state
                /\ cmds' = <<>>
                /\ relay_states' = relay_states
                /\ gpio' = gpio
                /\ history' = history
                /\ tank' = tank ) ]_vars

\* a tick was taken at the scheduled time, with levels that pass the
\* interlock and automatic mode disabled, and the controller is still Idle
C35_Witness ==
    /\ op = "tick"
    /\ ~pump_state.auto_enabled
    /\ now = pump_state.next_scheduled
    /\ ~Refused(tank)
    /\ Idle
    /\ cmds = <<>>
    /\ history = <<>>

(* C36. Ingestion and the passage of time alone never change the          *)
(* controller: a level message or an advance of the clock leaves the       *)
(* controller state, the relay states and the history as they were; a      *)
(* Running maneuver is closed only by a tick or by an explicit stop call.  *)
\* the handler being taken closes a maneuver
Closes ==
    \/ Running /\ ~pump_state'.running
    \/ Len(history') > Len(history)

\* the part of the claim about ingestion and the clock, which holds
IngestionAndTimeFrame ==
    [][ op' \in {"message", "advance"}
           => ( /\ pump_state' = pump_state
                /\ relay_states' = relay_states
                /\ gpio' = gpio
                /\ history' = history ) ]_vars

C36_OnlyTickOrStopCloses ==
    [][ /\ op' \in {"message", "advance"}
           => ( /\ pump_state' = pump_state
                /\ relay_states' = relay_states
                /\ history' = history )
        /\ Closes => op' \in {"tick", "stop"} ]_vars

====
